---- MODULE Spec2Model ----
(***************************************************************************)
(* Model of the refresh-coalescing cache of src/app.py (FlightDataCache)   *)
(* as it is used by concurrent request handlers.                           *)
(*                                                                         *)
(* Every caller is a thread.  A step of the model is one access to the     *)
(* shared object that another thread can observe: an attribute read made   *)
(* without the lock, a lock acquisition, one attribute write made while    *)
(* holding the lock (the lock-free readers of get_or_refresh can see the   *)
(* state between two such writes), or the rest of a locked section whose   *)
(* fields are only ever read under the lock.  Program counters are named   *)
(* after the source line they stand at (g170 = app.py line 170).           *)
(*                                                                         *)
(* A snapshot (the dict new_data built at app.py:208) is modelled by the   *)
(* serial number of the scrape that built it; 0 is None.  Time is counted  *)
(* in seconds and advances in steps of TickLen.  self.timestamp carries,   *)
(* next to the time, the publish that wrote it (field "of"), which the     *)
(* program does not store: it only names the publish in the properties.    *)
(*                                                                         *)
(* The handlers modelled are the ones that go through the cache's own      *)
(* interface: get_or_refresh (/datos-limpios), clear (/cache/clear) and    *)
(* get_stats (/health, /stats).  The variables ret, call, published,       *)
(* preClear and sinceClear are history: no action's guard reads them.      *)
(*                                                                         *)
(* The second part models the scraper of src/scraper.py                    *)
(* (TAMSScraperFinal): one run, by one thread, of scrape_all_flights, of   *)
(* scrape_all_pages or of extract_viewstate_data, against a server that    *)
(* answers every request with any document it could send, or not at all.   *)
(* A step is one HTTP request with the code that follows it up to the next *)
(* request.  The value of a hidden field is named by the response it came  *)
(* from.  In Spec and FairSpec a scrape is the single step ScrapeOk or     *)
(* ScrapeFail and the scraper's variables stay idle; ScrapeSpec runs the   *)
(* scraper alone and leaves the cache in its initial state.  The variables *)
(* lastreq, prevreq and hist and the fields pages, followed, dup and err   *)
(* of pg are history.                                                      *)
(***************************************************************************)
EXTENDS Integers, FiniteSets, Sequences, TLC

\* ------------------------------------------------------------ program constants
\* FlightDataCache(ttl_seconds=120), line 266
ttl == 120

\* ------------------------------------------------------------ bounds
\* operations (get_or_refresh, clear, get_stats) the handlers start in a run
MaxCalls == 3
\* the clock stops at MaxTime; it advances half a ttl at a time
MaxTime == 120
TickLen == ttl \div 2

Callers == {1, 2}
None == 0
\* str(e), the text of the exception recorded at line 235
Err == 1
NoTs == [at |-> -1, of |-> 0]

VARIABLES
    data,                  \* self.data: None or the published snapshot
    timestamp,             \* self.timestamp: NoTs, or [at: time of publish, of: the publish]
    lock,                  \* self.lock: 0 free, else the caller holding it
    scraping_in_progress,  \* self.scraping_in_progress
    last_error,            \* self.last_error: None or the recorded error text
    scrape_count,          \* self.scrape_count
    hit_count,             \* self.hit_count
    miss_count,            \* self.miss_count
    now,                   \* datetime.now(ARGENTINA_TZ)
    pc,                    \* per caller: where it stands
    new_data,              \* per caller: the local new_data (its scrape's serial), 0 if none
    ret,                   \* per caller: outcome of its last get_or_refresh
    call,                  \* per caller: history of the get_or_refresh in progress or just ended
    nscrapes,              \* scrapes started so far (serial numbers handed out)
    calls,                 \* operations (get_or_refresh, clear, get_stats) started so far
    published,             \* history: snapshots written to self.data so far
    preClear,              \* history: snapshots published before the last completed clear()
    sinceClear             \* history: "never" no clear() completed; "clean" none published since; "dirty"

\* the state of one scrape (src/scraper.py, TAMSScraperFinal), run by one thread
VARIABLES
    spc,                   \* where the scrape stands ("idle": none running)
    soup,                  \* scrape_all_flights: the local soup, the last document kept
    viewstate,             \* scrape_all_flights: the local viewstate
    pg,                    \* the frame of scrape_all_pages: its arguments and locals
    arrivals_plus6,        \* scrape_all_flights: the locals holding the four phases' records
    departures_plus6,
    arrivals_minus1,
    departures_minus1,
    result,                \* what the entry point returned: NoResult until then
    nreq,                  \* requests issued so far; the response to request n is document n
    lastreq,               \* history: the last request issued
    prevreq,               \* history: the request issued before it
    hist                   \* history of the scrape (see NoHist)

cvars == <<data, timestamp, lock, scraping_in_progress, last_error, scrape_count,
           hit_count, miss_count, now, pc, new_data, ret, call, nscrapes, calls,
           published, preClear, sinceClear>>

svars == <<spc, soup, viewstate, pg, arrivals_plus6, departures_plus6,
           arrivals_minus1, departures_minus1, result, nreq, lastreq, prevreq, hist>>

vars == <<cvars, svars>>

\* ------------------------------------------------------------ pure helpers

\* is_expired(), lines 157-161, once self.timestamp has been read as ts at time t
is_expired_inverted(ts, t) == ts = NoTs \/ (t - ts.at) < ttl
is_expired_late(ts, t) == ts = NoTs \/ (t - ts.at) > ttl
is_expired(ts, t) == ts = NoTs \/ (t - ts.at) >= ttl

\* the keys of the dict built at lines 208-214
NewDataKeys == {"arribos", "partidas", "timestamp", "scrape_time", "total_flights"}

NoRet == [kind |-> "none", id |-> 0, keys |-> {}]

\* return self.data / return new_data (lines 174, 181, 190, 230): the object itself
ReturnData(d) == [kind |-> "data", id |-> d,
                  keys |-> IF d = None THEN {} ELSE NewDataKeys]

\* lines 240-242: a shallow copy of self.data with the key 'warning' added
stale_data_unmarked(d) == [kind |-> "stale", id |-> d, keys |-> NewDataKeys]
stale_data(d) == [kind |-> "stale", id |-> d, keys |-> NewDataKeys \cup {"warning"}]

\* an exception leaving get_or_refresh: the scrape's own exception re-raised
\* at line 243 ("scrape"), or a TypeError / AttributeError raised by the
\* cache's own code on a None it read without the lock
Raise(what) == [kind |-> "raise", id |-> 0, keys |-> {what}]

\* datos_limpios(), lines 271-282: the response built from an outcome
\* (status, whether the body has the key 'error', its 'partidas' and 'arribos' lists when
\* the handler built them itself, and the outcome it serialised otherwise)
datos_limpios_bare(r) ==
    [status |-> IF r.kind = "raise" THEN 500 ELSE 200, error |-> FALSE,
     partidas |-> <<>>, arribos |-> <<>>, body |-> r]
datos_limpios(r) ==
    IF r.kind = "raise"
    THEN [status |-> 500, error |-> TRUE, partidas |-> <<>>, arribos |-> <<>>, body |-> NoRet]
    ELSE [status |-> 200, error |-> FALSE, partidas |-> <<>>, arribos |-> <<>>, body |-> r]

\* ------------------------------------------------------------ history of a call

\* scrapes     scrapes this call started            waits    grace waits it made
\* serial      serial number of its scrape          failed   its scrape raised
\* bumped      what it added to self.scrape_count
\* fresh       the entry (its publish) this call found published with age < ttl at its
\*             last freshness check, 0 if the check found none
\* moved       another caller wrote self.data or self.timestamp since that check
\* prior       the entry published when its scrape began, 0 if none
\* read238, read240   what lines 238 and 240 read in self.data (-1: line not reached)
\* left        self.data as the failure handler left it on its way out (-1: not reached)
\* pubd, clrd  another caller's publish / clear() wrote the entry during the call
\* conc        another caller was inside get_or_refresh or clear() during the call
\* afterClear  a clear() had completed when the call began; pre: the snapshots
\*             published before that clear() completed
\* clean       ... and nothing had been published since, and no clear() was under way
NewCall == [scrapes |-> 0, waits |-> 0, serial |-> 0, failed |-> FALSE, bumped |-> 0,
            fresh |-> 0, moved |-> FALSE, prior |-> 0, read238 |-> -1, read240 |-> -1,
            left |-> -1,
            pubd |-> FALSE, clrd |-> FALSE, conc |-> FALSE,
            afterClear |-> FALSE, clean |-> FALSE, pre |-> {}, afterStale |-> FALSE]

\* the entry a freshness check made at time t finds published with age < ttl (0: none)
FreshEntry(d, ts, t) == IF d # None /\ ts # NoTs /\ t - ts.at < ttl THEN ts.of ELSE 0

GetPcs == {"g170", "g158", "g160", "g171", "g172", "g173", "g174", "g177", "g179",
           "g186", "g187", "g188", "g200", "g216", "g217", "g218", "g219",
           "g234", "g235", "g238", "g240"}
ClearPcs == {"c262", "c263", "c264"}
StatsPcs == {"s246", "s247"}

InGet(q) == pc[q] \in GetPcs

\* another caller's publish wrote self.data or self.timestamp during q's call
NotePublish(p) == [q \in Callers |->
    IF q # p /\ InGet(q) THEN [call[q] EXCEPT !.pubd = TRUE, !.moved = TRUE] ELSE call[q]]
\* another caller's clear() wrote self.data or self.timestamp during q's call
NoteClear(p) == [q \in Callers |->
    IF q # p /\ InGet(q) THEN [call[q] EXCEPT !.clrd = TRUE, !.moved = TRUE] ELSE call[q]]
\* another caller entered get_or_refresh or clear() during q's call
NoteEnter(p) == [q \in Callers |->
    IF q # p /\ InGet(q) THEN [call[q] EXCEPT !.conc = TRUE] ELSE call[q]]

\* the call p is about to make follows a failed refresh answered with stale data:
\* the last scrape to end failed (last_error is set at line 235 and reset by every
\* publish at line 219), some caller holds the stale answer of a call whose scrape
\* failed with no other caller writing the entry meanwhile, and no other caller is
\* inside get_or_refresh or clear()
AfterStale(p) ==
    /\ last_error = Err
    /\ \A q \in Callers \ {p} : pc[q] \notin GetPcs \cup ClearPcs
    /\ \E q \in Callers : /\ pc[q] = "idle" /\ ret[q].kind = "stale"
                          /\ call[q].failed /\ ~call[q].pubd /\ ~call[q].clrd

\* ------------------------------------------------------------ the scraper: data
\* (src/scraper.py)  A dict is the set of its <<key, value>> pairs; a list is a sequence.

\* the three hidden fields extract_viewstate_data looks for (line 47)
VSFields == {"__VIEWSTATE", "__VIEWSTATEGENERATOR", "__EVENTVALIDATION"}

\* the six filter fields every postback of the scraper is built with
FilterFields == {"ddlMovTp", "ddlAeropuerto", "ddlSector", "ddlAerolinea",
                 "ddlAterrizados", "ddlVentanaH"}

\* max_pages=3, the literal of the two calls of lines 322 and 328
DefaultMaxPages == 3

\* the flight designators (column 'Vuelo') the remote grid shows
Keys == {"AR1300", "LA450"}
\* the postback identifiers a Pager row advertises, in the order it shows them
PageTargets == <<"dgGrilla$ctl14$ctl01", "dgGrilla$ctl14$ctl02", "dgGrilla$ctl14$ctl03",
                 "dgGrilla$ctl14$ctl04", "dgGrilla$ctl14$ctl05">>

\* data rows the server serves over one scrape, in all its grids together
MaxRecords == 3
\* pagination targets a Pager row advertises at most
MaxLinks == 3

Min(a, b) == IF a < b THEN a ELSE b
Max(a, b) == IF a > b THEN a ELSE b

\* a parsed document (BeautifulSoup of a response): n, the request it answers;
\* tokens, the hidden fields it has with a non-empty value; table, the id of the
\* results grid it holds ("none": no grid); rows, the 'Vuelo' cell of each data row of
\* that grid; links, the targets of the anchors of its Pager row
NoDoc == [n |-> -1, tokens |-> {}, table |-> "none", rows |-> <<>>, links |-> <<>>]

\* lines 194 and 249: the grid a flight type is read from
TableId(flight_type) == IF flight_type = "Arribos" THEN "dgGrillaA" ELSE "dgGrillaD"

\* extract_viewstate_data(), lines 43-54: the fields found with a value, each with the
\* value this document gives it (named by the document); a missing field is logged
\* and left out of the dict, which is returned all the same
extract_viewstate_data(doc) == {<<f, doc.n>> : f \in doc.tokens}

\* parse_flights(), lines 191-220: one record per data row, stamped with flight_type
\* under 'Tipo' and holding the row's cells under the header texts (here 'Vuelo');
\* the empty list when the table is absent or has no data row
parse_flights_nogrid(doc, flight_type) ==
    IF doc.table # TableId(flight_type)
    THEN <<[Tipo |-> flight_type, Vuelo |-> ""]>>
    ELSE [i \in 1..Len(doc.rows) |-> [Tipo |-> flight_type, Vuelo |-> doc.rows[i]]]
parse_flights(doc, flight_type) ==
    IF doc.table # TableId(flight_type)
    THEN <<>>
    ELSE [i \in 1..Len(doc.rows) |-> [Tipo |-> flight_type, Vuelo |-> doc.rows[i]]]

\* get_page_links(), lines 222-243: the targets of the Pager row of the table, in order
get_page_links(doc, table_id) == IF doc.table # table_id THEN <<>> ELSE doc.links

\* a Python slice seq[:n] (line 277): a negative n counts from the end
SliceTo(seq, n) ==
    IF n >= 0 THEN SubSeq(seq, 1, Min(n, Len(seq)))
    ELSE SubSeq(seq, 1, Max(0, Len(seq) + n))

\* line 275: pages_to_scrape = min(len(page_links), max_pages - 1)
pages_to_scrape_off(page_links, max_pages) == Min(Len(page_links), max_pages)
pages_to_scrape(page_links, max_pages) == Min(Len(page_links), max_pages - 1)

\* lines 291-292: the first record's 'Vuelo' of the new page is the 'Vuelo' of some
\* record accumulated so far
is_duplicate_last(page_flights, all_flights) ==
    all_flights # <<>> /\ all_flights[Len(all_flights)].Vuelo = page_flights[1].Vuelo
is_duplicate(page_flights, all_flights) ==
    \E i \in 1..Len(all_flights) : all_flights[i].Vuelo = page_flights[1].Vuelo

\* a request: method; data, the form dict without the hidden fields; vs, the hidden
\* fields it carries (**viewstate); timeout, the timeout= argument of the call in
\* seconds (None: not given, the call waits for the server without limit); step and
\* phase name the code that issued it
NoReq == [method |-> "none", data |-> {}, vs |-> {}, timeout |-> None,
          step |-> "none", phase |-> 0]

\* the filter part of the dicts of lines 72-82, 90-101, 120-130, 138-149, 169-179
Filters(mov, hours) ==
    {<<"ddlMovTp", mov>>, <<"ddlAeropuerto", "AEP">>, <<"ddlSector", "-1">>,
     <<"ddlAerolinea", "-1">>, <<"ddlAterrizados", "TODOS">>, <<"ddlVentanaH", hours>>}

Event(target) == {<<"__EVENTTARGET", target>>, <<"__EVENTARGUMENT", "">>}

Buscar == {<<"btnBuscar", "Buscar">>}

\* get_initial_page(), line 59: a GET with no form, timeout=10
get_initial_page == [method |-> "GET", data |-> {}, vs |-> {}, timeout |-> 10,
                     step |-> "get", phase |-> 1]

\* change_to_departures(), lines 72-84 (step 1, timeout=10) and 90-103 (step 2, none)
change_to_departures_1(vs) ==
    [method |-> "POST", data |-> Event("ddlMovTp") \cup Filters("D", "6"),
     vs |-> vs, timeout |-> 10, step |-> "dir1", phase |-> 2]
change_to_departures_2(vs) ==
    [method |-> "POST", data |-> Event("") \cup Filters("D", "6") \cup Buscar,
     vs |-> vs, timeout |-> None, step |-> "dir2", phase |-> 2]

\* change_time_window_and_search(), lines 120-132 (step 1) and 138-151 (step 2)
change_time_window_1(vs, flight_type, hours) ==
    [method |-> "POST", data |-> Event("ddlVentanaH") \cup Filters(flight_type, hours),
     vs |-> vs, timeout |-> None, step |-> "win1", phase |-> IF flight_type = "A" THEN 3 ELSE 4]
change_time_window_2(vs, flight_type, hours) ==
    [method |-> "POST", data |-> Event("") \cup Filters(flight_type, hours) \cup Buscar,
     vs |-> vs, timeout |-> None, step |-> "win2", phase |-> IF flight_type = "A" THEN 3 ELSE 4]

\* click_pagination(), lines 167-181
click_pagination_search(vs, page_target, flight_type) ==
    [method |-> "POST",
     data |-> Event(page_target)
              \cup Filters(IF flight_type = "Arribos" THEN "A" ELSE "D", "6") \cup Buscar,
     vs |-> vs, timeout |-> None, step |-> "page", phase |-> IF flight_type = "Arribos" THEN 1 ELSE 2]
click_pagination(vs, page_target, flight_type) ==
    [method |-> "POST",
     data |-> Event(page_target) \cup Filters(IF flight_type = "Arribos" THEN "A" ELSE "D", "6"),
     vs |-> vs, timeout |-> None, step |-> "page", phase |-> IF flight_type = "Arribos" THEN 1 ELSE 2]

\* the frame of scrape_all_pages (lines 245-314): its arguments soup, viewstate,
\* flight_type and max_pages, its locals all_flights, page_links, pages_to_scrape and
\* idx, and the history of the run: pages, what parse_flights gave for each page
\* fetched; followed, the targets posted; dup, the duplicate check stopped it; err, a
\* pagination request raised
NoFrame == [soup |-> NoDoc, viewstate |-> {}, flight_type |-> "", max_pages |-> 0,
            all_flights |-> <<>>, page_links |-> <<>>, pages_to_scrape |-> 0, idx |-> 0,
            pages |-> <<>>, followed |-> <<>>, dup |-> FALSE, err |-> FALSE]

\* (the call starting from the records of the arrivals run instead of an empty list)
Frame_carry(doc, vs, flight_type, max_pages) ==
    [NoFrame EXCEPT !.soup = doc, !.viewstate = vs, !.flight_type = flight_type,
                    !.max_pages = max_pages, !.all_flights = arrivals_plus6]

\* the call scrape_all_pages(soup, viewstate, flight_type, max_pages) (lines 245-248)
Frame(doc, vs, flight_type, max_pages) ==
    [NoFrame EXCEPT !.soup = doc, !.viewstate = vs, !.flight_type = flight_type,
                    !.max_pages = max_pages]

\* what the entry point gave back: nothing yet, the tuple of line 364, the list of
\* line 314, or the exception that left it
NoResult == [kind |-> "none", value |-> <<>>]

\* history of a scrape: entry, the entry point called; served, the data rows served;
\* dropped, the rows of the pages the duplicate check refused; failed, the requests
\* that raised; order, the phases whose records were taken, in the order they were taken
NoHist == [entry |-> "none", served |-> 0, dropped |-> 0, failed |-> 0, order |-> <<>>]

\* no scrape running
ScraperIdle ==
    /\ spc = "idle"
    /\ soup = NoDoc
    /\ viewstate = {}
    /\ pg = NoFrame
    /\ arrivals_plus6 = <<>>
    /\ departures_plus6 = <<>>
    /\ arrivals_minus1 = <<>>
    /\ departures_minus1 = <<>>
    /\ result = NoResult
    /\ nreq = 0
    /\ lastreq = NoReq
    /\ prevreq = NoReq
    /\ hist = NoHist

\* ------------------------------------------------------------ initial state
\* FlightDataCache.__init__, lines 146-155; every caller idle
Init ==
    /\ data = None
    /\ timestamp = NoTs
    /\ lock = 0
    /\ scraping_in_progress = FALSE
    /\ last_error = None
    /\ scrape_count = 0
    /\ hit_count = 0
    /\ miss_count = 0
    /\ now = 0
    /\ pc = [p \in Callers |-> "idle"]
    /\ new_data = [p \in Callers |-> 0]
    /\ ret = [p \in Callers |-> NoRet]
    /\ call = [p \in Callers |-> NewCall]
    /\ nscrapes = 0
    /\ calls = 0
    /\ published = {}
    /\ preClear = {}
    /\ sinceClear = "never"
    /\ ScraperIdle

\* ------------------------------------------------------------ the clock
Tick ==
    /\ now + TickLen <= MaxTime
    /\ now' = now + TickLen
    /\ UNCHANGED svars
    /\ UNCHANGED <<data, timestamp, lock, scraping_in_progress, last_error, scrape_count,
                   hit_count, miss_count, pc, new_data, ret, call, nscrapes, calls,
                   published, preClear, sinceClear>>

\* ------------------------------------------------------------ get_or_refresh

\* a handler calls flight_cache.get_or_refresh() (line 274)
StartGet(p) ==
    /\ pc[p] = "idle"
    /\ calls < MaxCalls
    /\ calls' = calls + 1
    /\ pc' = [pc EXCEPT ![p] = "g170"]
    /\ ret' = [ret EXCEPT ![p] = NoRet]
    /\ new_data' = [new_data EXCEPT ![p] = 0]
    /\ call' = [NoteEnter(p) EXCEPT ![p] =
                  [NewCall EXCEPT
                     !.conc = \E q \in Callers \ {p} : pc[q] \in GetPcs \cup ClearPcs,
                     !.afterClear = (sinceClear # "never"),
                     !.clean = (sinceClear = "clean"
                                /\ \A q \in Callers \ {p} : pc[q] \notin ClearPcs),
                     !.pre = preClear,
                     !.afterStale = AfterStale(p)]]
    /\ UNCHANGED svars
    /\ UNCHANGED <<data, timestamp, lock, scraping_in_progress, last_error, scrape_count,
                   hit_count, miss_count, now, nscrapes, published, preClear, sinceClear>>

\* line 170, first operand: self.data is not None, read without the lock
G170(p) ==
    /\ pc[p] = "g170"
    /\ pc' = [pc EXCEPT ![p] = IF data # None THEN "g158" ELSE "g177"]
    /\ UNCHANGED svars
    /\ UNCHANGED <<data, timestamp, lock, scraping_in_progress, last_error, scrape_count,
                   hit_count, miss_count, now, new_data, ret, call, nscrapes, calls,
                   published, preClear, sinceClear>>

\* line 170 -> is_expired() line 158: self.timestamp is None, read without the lock
G158(p) ==
    /\ pc[p] = "g158"
    /\ pc' = [pc EXCEPT ![p] = IF timestamp = NoTs THEN "g177" ELSE "g160"]
    /\ UNCHANGED svars
    /\ UNCHANGED <<data, timestamp, lock, scraping_in_progress, last_error, scrape_count,
                   hit_count, miss_count, now, new_data, ret, call, nscrapes, calls,
                   published, preClear, sinceClear>>

\* is_expired() line 160: self.timestamp is read again; datetime - None raises TypeError
G160(p) ==
    /\ pc[p] = "g160"
    /\ IF timestamp = NoTs
       THEN /\ pc' = [pc EXCEPT ![p] = "idle"]
            /\ ret' = [ret EXCEPT ![p] = Raise("TypeError")]
            /\ call' = call
       ELSE /\ pc' = [pc EXCEPT ![p] = IF is_expired(timestamp, now) THEN "g177" ELSE "g171"]
            /\ ret' = ret
            /\ call' = [call EXCEPT ![p].fresh = FreshEntry(timestamp.of, timestamp, now),
                                     ![p].moved = FALSE]
    /\ UNCHANGED svars
    /\ UNCHANGED <<data, timestamp, lock, scraping_in_progress, last_error, scrape_count,
                   hit_count, miss_count, now, new_data, nscrapes, calls,
                   published, preClear, sinceClear>>

\* line 171: with self.lock (acquire)
G171(p) ==
    /\ pc[p] = "g171"
    /\ lock = 0
    /\ lock' = p
    /\ pc' = [pc EXCEPT ![p] = "g172"]
    /\ UNCHANGED svars
    /\ UNCHANGED <<data, timestamp, scraping_in_progress, last_error, scrape_count,
                   hit_count, miss_count, now, new_data, ret, call, nscrapes, calls,
                   published, preClear, sinceClear>>

\* line 172: self.hit_count += 1, and the with block ends (release)
G172(p) ==
    /\ pc[p] = "g172"
    /\ hit_count' = hit_count + 1
    /\ lock' = 0
    /\ pc' = [pc EXCEPT ![p] = "g173"]
    /\ UNCHANGED svars
    /\ UNCHANGED <<data, timestamp, scraping_in_progress, last_error, scrape_count,
                   miss_count, now, new_data, ret, call, nscrapes, calls,
                   published, preClear, sinceClear>>

\* line 173: the log line formats self.get_age() with :.1f; get_age() (163-166) reads
\* self.timestamp without the lock and a None (either returned, or subtracted) is a TypeError
G173(p) ==
    /\ pc[p] = "g173"
    /\ IF timestamp = NoTs
       THEN /\ pc' = [pc EXCEPT ![p] = "idle"]
            /\ ret' = [ret EXCEPT ![p] = Raise("TypeError")]
       ELSE /\ pc' = [pc EXCEPT ![p] = "g174"]
            /\ ret' = ret
    /\ UNCHANGED svars
    /\ UNCHANGED <<data, timestamp, lock, scraping_in_progress, last_error, scrape_count,
                   hit_count, miss_count, now, new_data, call, nscrapes, calls,
                   published, preClear, sinceClear>>

\* line 174: return self.data, read without the lock
G174(p) ==
    /\ pc[p] = "g174"
    /\ pc' = [pc EXCEPT ![p] = "idle"]
    /\ ret' = [ret EXCEPT ![p] = ReturnData(data)]
    /\ UNCHANGED svars
    /\ UNCHANGED <<data, timestamp, lock, scraping_in_progress, last_error, scrape_count,
                   hit_count, miss_count, now, new_data, call, nscrapes, calls,
                   published, preClear, sinceClear>>

\* line 177: with self.lock (acquire)
G177(p) ==
    /\ pc[p] = "g177"
    /\ lock = 0
    /\ lock' = p
    /\ pc' = [pc EXCEPT ![p] = "g179"]
    /\ UNCHANGED svars
    /\ UNCHANGED <<data, timestamp, scraping_in_progress, last_error, scrape_count,
                   hit_count, miss_count, now, new_data, ret, call, nscrapes, calls,
                   published, preClear, sinceClear>>

\* the hit taken under the lock (lines 179-181 and 188-190): count it, return self.data,
\* leave the with block
LockedHit(p) ==
    /\ hit_count' = hit_count + 1
    /\ lock' = 0
    /\ pc' = [pc EXCEPT ![p] = "idle"]
    /\ ret' = [ret EXCEPT ![p] = ReturnData(data)]
    /\ call' = [call EXCEPT ![p].fresh = FreshEntry(data, timestamp, now),
                             ![p].moved = FALSE]
    /\ UNCHANGED svars
    /\ UNCHANGED <<data, timestamp, scraping_in_progress, last_error, scrape_count,
                   miss_count, now, new_data, nscrapes, calls,
                   published, preClear, sinceClear>>

\* lines 192-200: mark the refresh, count the miss, leave the with block, start the scrape
BeginScrape(p) ==
    /\ scraping_in_progress' = TRUE
    /\ miss_count' = miss_count + 1
    /\ lock' = 0
    /\ nscrapes' = nscrapes + 1
    /\ pc' = [pc EXCEPT ![p] = "g200"]
    /\ call' = [call EXCEPT ![p].scrapes = @ + 1, ![p].serial = nscrapes + 1,
                             ![p].fresh = FreshEntry(data, timestamp, now),
                             ![p].moved = FALSE, ![p].prior = data]
    /\ UNCHANGED svars
    /\ UNCHANGED <<data, timestamp, last_error, scrape_count, hit_count, now,
                   new_data, ret, calls, published, preClear, sinceClear>>

\* (the wait entered without self.lock.release())
BeginWait_locked(p) ==
    /\ lock' = lock
    /\ pc' = [pc EXCEPT ![p] = "g186"]
    /\ call' = [call EXCEPT ![p].waits = @ + 1,
                             ![p].fresh = FreshEntry(data, timestamp, now),
                             ![p].moved = FALSE]
    /\ UNCHANGED svars
    /\ UNCHANGED <<data, timestamp, scraping_in_progress, last_error, scrape_count,
                   hit_count, miss_count, now, new_data, ret, nscrapes, calls,
                   published, preClear, sinceClear>>

\* lines 185-186: self.lock.release(), then time.sleep(2)
BeginWait(p) ==
    /\ lock' = 0
    /\ pc' = [pc EXCEPT ![p] = "g186"]
    /\ call' = [call EXCEPT ![p].waits = @ + 1,
                             ![p].fresh = FreshEntry(data, timestamp, now),
                             ![p].moved = FALSE]
    /\ UNCHANGED svars
    /\ UNCHANGED <<data, timestamp, scraping_in_progress, last_error, scrape_count,
                   hit_count, miss_count, now, new_data, ret, nscrapes, calls,
                   published, preClear, sinceClear>>

\* lines 179-193 with the lock held: double-check, then wait or start the refresh
G179(p) ==
    /\ pc[p] = "g179"
    /\ IF data # None /\ ~is_expired(timestamp, now)
       THEN LockedHit(p)
       ELSE IF scraping_in_progress
            THEN BeginWait(p)
            ELSE BeginScrape(p)

\* line 186: time.sleep(2) returns
G186(p) ==
    /\ pc[p] = "g186"
    /\ pc' = [pc EXCEPT ![p] = "g187"]
    /\ UNCHANGED svars
    /\ UNCHANGED <<data, timestamp, lock, scraping_in_progress, last_error, scrape_count,
                   hit_count, miss_count, now, new_data, ret, call, nscrapes, calls,
                   published, preClear, sinceClear>>

\* line 187: self.lock.acquire()
G187(p) ==
    /\ pc[p] = "g187"
    /\ lock = 0
    /\ lock' = p
    /\ pc' = [pc EXCEPT ![p] = "g188"]
    /\ UNCHANGED svars
    /\ UNCHANGED <<data, timestamp, scraping_in_progress, last_error, scrape_count,
                   hit_count, miss_count, now, new_data, ret, call, nscrapes, calls,
                   published, preClear, sinceClear>>

\* (no re-check after the wait: the caller always starts its own scrape)
G188_nocheck(p) ==
    /\ pc[p] = "g188"
    /\ BeginScrape(p)

\* (the wait repeated for as long as a refresh is marked in progress)
G188_loop(p) ==
    /\ pc[p] = "g188"
    /\ IF data # None /\ ~is_expired(timestamp, now)
       THEN LockedHit(p)
       ELSE IF scraping_in_progress
            THEN BeginWait(p)
            ELSE BeginScrape(p)

\* lines 188-193 with the lock held: re-check after the wait, else start the refresh
G188(p) ==
    /\ pc[p] = "g188"
    /\ IF data # None /\ ~is_expired(timestamp, now)
       THEN LockedHit(p)
       ELSE BeginScrape(p)

\* lines 199-214: scrape_all_flights() and the normalisation return; new_data is built
ScrapeOk(p) ==
    /\ pc[p] = "g200"
    /\ new_data' = [new_data EXCEPT ![p] = call[p].serial]
    /\ pc' = [pc EXCEPT ![p] = "g216"]
    /\ UNCHANGED svars
    /\ UNCHANGED <<data, timestamp, lock, scraping_in_progress, last_error, scrape_count,
                   hit_count, miss_count, now, ret, call, nscrapes, calls,
                   published, preClear, sinceClear>>

\* lines 199-214 raise: control goes to the except clause at line 232
ScrapeFail(p) ==
    /\ pc[p] = "g200"
    /\ pc' = [pc EXCEPT ![p] = "g234"]
    /\ call' = [call EXCEPT ![p].failed = TRUE]
    /\ UNCHANGED svars
    /\ UNCHANGED <<data, timestamp, lock, scraping_in_progress, last_error, scrape_count,
                   hit_count, miss_count, now, new_data, ret, nscrapes, calls,
                   published, preClear, sinceClear>>
\* line 216: with self.lock (acquire)
G216(p) ==
    /\ pc[p] = "g216"
    /\ lock = 0
    /\ lock' = p
    /\ pc' = [pc EXCEPT ![p] = "g217"]
    /\ UNCHANGED svars
    /\ UNCHANGED <<data, timestamp, scraping_in_progress, last_error, scrape_count,
                   hit_count, miss_count, now, new_data, ret, call, nscrapes, calls,
                   published, preClear, sinceClear>>

\* line 217: self.data = new_data
G217(p) ==
    /\ pc[p] = "g217"
    /\ data' = new_data[p]
    /\ published' = published \cup {new_data[p]}
    /\ sinceClear' = IF sinceClear = "never" THEN "never" ELSE "dirty"
    /\ call' = NotePublish(p)
    /\ pc' = [pc EXCEPT ![p] = "g218"]
    /\ UNCHANGED svars
    /\ UNCHANGED <<timestamp, lock, scraping_in_progress, last_error, scrape_count,
                   hit_count, miss_count, now, new_data, ret, nscrapes, calls, preClear>>

\* line 218: self.timestamp = datetime.now(ARGENTINA_TZ)
G218(p) ==
    /\ pc[p] = "g218"
    /\ timestamp' = [at |-> now, of |-> new_data[p]]
    /\ call' = NotePublish(p)
    /\ pc' = [pc EXCEPT ![p] = "g219"]
    /\ UNCHANGED svars
    /\ UNCHANGED <<data, lock, scraping_in_progress, last_error, scrape_count,
                   hit_count, miss_count, now, new_data, ret, nscrapes, calls,
                   published, preClear, sinceClear>>

\* lines 219-230: clear the error, count the scrape, clear the flag, leave the with
\* block and return new_data
G219(p) ==
    /\ pc[p] = "g219"
    /\ last_error' = None
    /\ scrape_count' = scrape_count + 1
    /\ scraping_in_progress' = FALSE
    /\ lock' = 0
    /\ pc' = [pc EXCEPT ![p] = "idle"]
    /\ ret' = [ret EXCEPT ![p] = ReturnData(new_data[p])]
    /\ call' = [call EXCEPT ![p].bumped = scrape_count' - scrape_count]
    /\ UNCHANGED svars
    /\ UNCHANGED <<data, timestamp, hit_count, miss_count, now, new_data,
                   nscrapes, calls, published, preClear, sinceClear>>

\* line 234: with self.lock (acquire), in the except clause
G234(p) ==
    /\ pc[p] = "g234"
    /\ lock = 0
    /\ lock' = p
    /\ pc' = [pc EXCEPT ![p] = "g235"]
    /\ UNCHANGED svars
    /\ UNCHANGED <<data, timestamp, scraping_in_progress, last_error, scrape_count,
                   hit_count, miss_count, now, new_data, ret, call, nscrapes, calls,
                   published, preClear, sinceClear>>

\* (the failure handler also dropping the entry)
G235_drop(p) ==
    /\ pc[p] = "g235"
    /\ last_error' = Err
    /\ scraping_in_progress' = FALSE
    /\ data' = None
    /\ lock' = 0
    /\ pc' = [pc EXCEPT ![p] = "g238"]
    /\ UNCHANGED svars
    /\ UNCHANGED <<timestamp, scrape_count, hit_count, miss_count, now,
                   new_data, ret, call, nscrapes, calls, published, preClear, sinceClear>>

\* (the failure handler also restamping the entry it keeps: a cached failure)
G235_restamp(p) ==
    /\ pc[p] = "g235"
    /\ last_error' = Err
    /\ scraping_in_progress' = FALSE
    /\ timestamp' = IF timestamp = NoTs THEN NoTs ELSE [timestamp EXCEPT !.at = now]
    /\ lock' = 0
    /\ pc' = [pc EXCEPT ![p] = "g238"]
    /\ UNCHANGED svars
    /\ UNCHANGED <<data, scrape_count, hit_count, miss_count, now,
                   new_data, ret, call, nscrapes, calls, published, preClear, sinceClear>>

\* lines 235-236: record the error, clear the flag, leave the with block
G235(p) ==
    /\ pc[p] = "g235"
    /\ last_error' = Err
    /\ scraping_in_progress' = FALSE
    /\ lock' = 0
    /\ pc' = [pc EXCEPT ![p] = "g238"]
    /\ UNCHANGED svars
    /\ UNCHANGED <<data, timestamp, scrape_count, hit_count, miss_count, now,
                   new_data, ret, call, nscrapes, calls, published, preClear, sinceClear>>

\* line 238: if self.data is not None, read without the lock; else the bare raise of 243
G238(p) ==
    /\ pc[p] = "g238"
    /\ IF data # None
       THEN /\ pc' = [pc EXCEPT ![p] = "g240"]
            /\ ret' = ret
       ELSE /\ pc' = [pc EXCEPT ![p] = "idle"]
            /\ ret' = [ret EXCEPT ![p] = Raise("scrape")]
    /\ UNCHANGED svars
    /\ UNCHANGED <<data, timestamp, lock, scraping_in_progress, last_error, scrape_count,
                   hit_count, miss_count, now, new_data, nscrapes, calls,
                   published, preClear, sinceClear>>
    /\ call' = [call EXCEPT ![p].read238 = data, ![p].left = data']

\* lines 240-242: self.data.copy() reads self.data again without the lock (None has no
\* copy: AttributeError), marks the copy and returns it
G240(p) ==
    /\ pc[p] = "g240"
    /\ pc' = [pc EXCEPT ![p] = "idle"]
    /\ ret' = [ret EXCEPT ![p] = IF data = None THEN Raise("AttributeError")
                                               ELSE stale_data(data)]
    /\ UNCHANGED svars
    /\ UNCHANGED <<data, timestamp, lock, scraping_in_progress, last_error, scrape_count,
                   hit_count, miss_count, now, new_data, nscrapes, calls,
                   published, preClear, sinceClear>>
    /\ call' = [call EXCEPT ![p].read240 = data, ![p].left = data']

\* ------------------------------------------------------------ clear

\* a handler calls flight_cache.clear() (line 300)
StartClear(p) ==
    /\ pc[p] = "idle"
    /\ calls < MaxCalls
    /\ calls' = calls + 1
    /\ pc' = [pc EXCEPT ![p] = "c262"]
    /\ call' = NoteEnter(p)
    /\ UNCHANGED svars
    /\ UNCHANGED <<data, timestamp, lock, scraping_in_progress, last_error, scrape_count,
                   hit_count, miss_count, now, new_data, ret, nscrapes,
                   published, preClear, sinceClear>>

\* line 262: with self.lock (acquire)
C262(p) ==
    /\ pc[p] = "c262"
    /\ lock = 0
    /\ lock' = p
    /\ pc' = [pc EXCEPT ![p] = "c263"]
    /\ UNCHANGED svars
    /\ UNCHANGED <<data, timestamp, scraping_in_progress, last_error, scrape_count,
                   hit_count, miss_count, now, new_data, ret, call, nscrapes, calls,
                   published, preClear, sinceClear>>

\* (clear() resetting the timestamp only)
C263_keep(p) ==
    /\ pc[p] = "c263"
    /\ data' = data
    /\ call' = NoteClear(p)
    /\ pc' = [pc EXCEPT ![p] = "c264"]
    /\ UNCHANGED svars
    /\ UNCHANGED <<timestamp, lock, scraping_in_progress, last_error, scrape_count,
                   hit_count, miss_count, now, new_data, ret, nscrapes, calls,
                   published, preClear, sinceClear>>

\* line 263: self.data = None
C263(p) ==
    /\ pc[p] = "c263"
    /\ data' = None
    /\ call' = NoteClear(p)
    /\ pc' = [pc EXCEPT ![p] = "c264"]
    /\ UNCHANGED svars
    /\ UNCHANGED <<timestamp, lock, scraping_in_progress, last_error, scrape_count,
                   hit_count, miss_count, now, new_data, ret, nscrapes, calls,
                   published, preClear, sinceClear>>

\* line 264: self.timestamp = None, and the with block ends (release): clear() returns
C264_reset(p) ==
    /\ pc[p] = "c264"
    /\ timestamp' = NoTs
    /\ lock' = 0
    /\ call' = NoteClear(p)
    /\ preClear' = published
    /\ sinceClear' = "clean"
    /\ scrape_count' = 0
    /\ pc' = [pc EXCEPT ![p] = "idle"]
    /\ UNCHANGED svars
    /\ UNCHANGED <<data, scraping_in_progress, last_error,
                   hit_count, miss_count, now, new_data, ret, nscrapes, calls, published>>
C264(p) ==
    /\ pc[p] = "c264"
    /\ timestamp' = NoTs
    /\ lock' = 0
    /\ call' = NoteClear(p)
    /\ preClear' = published
    /\ sinceClear' = "clean"
    /\ pc' = [pc EXCEPT ![p] = "idle"]
    /\ UNCHANGED svars
    /\ UNCHANGED <<data, scraping_in_progress, last_error, scrape_count,
                   hit_count, miss_count, now, new_data, ret, nscrapes, calls, published>>

\* ------------------------------------------------------------ get_stats

\* a handler calls flight_cache.get_stats() (lines 286, 296)
StartStats(p) ==
    /\ pc[p] = "idle"
    /\ calls < MaxCalls
    /\ calls' = calls + 1
    /\ pc' = [pc EXCEPT ![p] = "s246"]
    /\ UNCHANGED svars
    /\ UNCHANGED <<data, timestamp, lock, scraping_in_progress, last_error, scrape_count,
                   hit_count, miss_count, now, new_data, ret, call, nscrapes,
                   published, preClear, sinceClear>>

\* line 246: with self.lock (acquire)
S246(p) ==
    /\ pc[p] = "s246"
    /\ lock = 0
    /\ lock' = p
    /\ pc' = [pc EXCEPT ![p] = "s247"]
    /\ UNCHANGED svars
    /\ UNCHANGED <<data, timestamp, scraping_in_progress, last_error, scrape_count,
                   hit_count, miss_count, now, new_data, ret, call, nscrapes, calls,
                   published, preClear, sinceClear>>

\* lines 247-259: the report is built from reads only, and the with block ends (release)
S247(p) ==
    /\ pc[p] = "s247"
    /\ lock' = 0
    /\ pc' = [pc EXCEPT ![p] = "idle"]
    /\ UNCHANGED svars
    /\ UNCHANGED <<data, timestamp, scraping_in_progress, last_error, scrape_count,
                   hit_count, miss_count, now, new_data, ret, call, nscrapes, calls,
                   published, preClear, sinceClear>>

\* ------------------------------------------------------------ specification
Next ==
    \/ Tick
    \/ \E p \in Callers :
        \/ StartGet(p) \/ G170(p) \/ G158(p) \/ G160(p) \/ G171(p) \/ G172(p)
        \/ G173(p) \/ G174(p) \/ G177(p) \/ G179(p) \/ G186(p) \/ G187(p) \/ G188(p)
        \/ ScrapeOk(p) \/ ScrapeFail(p)
        \/ G216(p) \/ G217(p) \/ G218(p) \/ G219(p)
        \/ G234(p) \/ G235(p) \/ G238(p) \/ G240(p)
        \/ StartClear(p) \/ C262(p) \/ C263(p) \/ C264(p)
        \/ StartStats(p) \/ S246(p) \/ S247(p)

Spec == Init /\ [][Next]_vars

\* the fairness the scheduling gives: a thread that can take a step eventually takes
\* it, and a scrape in flight eventually returns or raises; nothing makes a handler
\* start an operation.  A thread blocked on the lock can step once the lock is free;
\* the handlers start finitely many operations, so the lock ends up free for good
\* unless a thread keeps it, and weak fairness is enough.
Proc(p) ==
    \/ G170(p) \/ G158(p) \/ G160(p) \/ G171(p) \/ G172(p)
    \/ G173(p) \/ G174(p) \/ G177(p) \/ G179(p) \/ G186(p) \/ G187(p) \/ G188(p)
    \/ ScrapeOk(p) \/ ScrapeFail(p)
    \/ G216(p) \/ G217(p) \/ G218(p) \/ G219(p)
    \/ G234(p) \/ G235(p) \/ G238(p) \/ G240(p)
    \/ C262(p) \/ C263(p) \/ C264(p)
    \/ S246(p) \/ S247(p)

FairSpec == Init /\ [][Next]_vars /\ \A p \in Callers : WF_vars(Proc(p))

\* ------------------------------------------------------------ the scraper: the remote server

\* the hidden fields of the responses of a scrape: the server's pages carry all three
\* (extract_viewstate_data is run on other documents through its own entry point)
TokenSets == {VSFields}

\* the data rows a grid can show: any sequence of designators within the rows left
RowSeqs(k) == UNION {[1..m -> Keys] : m \in 0..k}

\* the documents the server can answer request n with when the form asks for movement
\* type mov: no grid, or the grid of that type with some rows and some Pager row
GridDocs(n, mov) ==
    {d \in [n : {n}, tokens : TokenSets,
            table : {"none", IF mov = "A" THEN "dgGrillaA" ELSE "dgGrillaD"},
            rows : RowSeqs(MaxRecords - hist.served),
            links : {SubSeq(PageTargets, 1, l) : l \in 0..MaxLinks}] :
        d.table = "none" => (d.rows = <<>> /\ d.links = <<>>)}

\* the same for a response only parse_flights reads (line 287): its Pager row, which
\* nothing reads, is left out
PageDocs(n, mov) == {d \in GridDocs(n, mov) : d.links = <<>>}

\* the same for a response only extract_viewstate_data reads (lines 86 and 134)
TokenDocs(n) == {d \in GridDocs(n, "A") : d.table = "none"}

\* the request req goes out
Issue(req) ==
    /\ nreq' = nreq + 1
    /\ prevreq' = lastreq
    /\ lastreq' = req

\* the history after document d came back
Noted(d) == [hist EXCEPT !.served = @ + Len(d.rows)]

\* the server sends nothing back and the request has no timeout: session.post does
\* not return
Hangs(req) == req.timeout = None

\* the exception of a request that raised leaves scrape_all_flights (no handler there)
Raised == [kind |-> "raise", value |-> <<>>]

\* ------------------------------------------------------------ the scraper: scrape_all_flights

\* scrape_all_flights() is called (app.py line 200)
StartScrape ==
    /\ spc = "idle"
    /\ spc' = "s319"
    /\ hist' = [hist EXCEPT !.entry = "flights"]
    /\ UNCHANGED cvars
    /\ UNCHANGED <<soup, viewstate, pg, arrivals_plus6, departures_plus6, arrivals_minus1,
                   departures_minus1, result, nreq, lastreq, prevreq>>

\* lines 319 and 56-65: the GET; it raises (transport error, raise_for_status), or the
\* page is parsed, its hidden fields extracted, and line 322 calls scrape_all_pages
\* with soup, viewstate, 'Arribos' and max_pages=3
GetInitialPage ==
    /\ spc = "s319"
    /\ Issue(get_initial_page)
    /\ \/ /\ spc' = "raised"
          /\ result' = Raised
          /\ hist' = [hist EXCEPT !.failed = @ + 1]
          /\ UNCHANGED <<soup, viewstate, pg>>
       \/ \E d \in GridDocs(nreq + 1, "A") :
            /\ soup' = d
            /\ viewstate' = extract_viewstate_data(d)
            /\ pg' = Frame(d, extract_viewstate_data(d), "Arribos", DefaultMaxPages)
            /\ hist' = Noted(d)
            /\ spc' = "p257"
            /\ result' = result
    /\ UNCHANGED cvars
    /\ UNCHANGED <<arrivals_plus6, departures_plus6, arrivals_minus1, departures_minus1>>

\* ------------------------------------------------------------ the scraper: scrape_all_pages

\* scrape_all_pages(soup, viewstate, flight_type, max_pages) is called on its own, with
\* a document, the hidden fields extracted from it, a flight type and any max_pages
StartPages ==
    /\ spc = "idle"
    /\ \E d \in GridDocs(0, "A") \cup GridDocs(0, "D"),
          flight_type \in {"Arribos", "Partidas"},
          max_pages \in (0 - 1)..MaxLinks :
            /\ soup' = d
            /\ viewstate' = extract_viewstate_data(d)
            /\ pg' = Frame(d, extract_viewstate_data(d), flight_type, max_pages)
            /\ hist' = [Noted(d) EXCEPT !.entry = "pages"]
    /\ spc' = "p257"
    /\ UNCHANGED cvars
    /\ UNCHANGED <<arrivals_plus6, departures_plus6, arrivals_minus1, departures_minus1,
                   result, nreq, lastreq, prevreq>>

\* lines 248-275: page 1 is parsed from the soup passed in and its records taken; with
\* no pagination link the function returns (line 270), else pages_to_scrape is set
Page1 ==
    /\ spc = "p257"
    /\ LET page1_flights == parse_flights(pg.soup, pg.flight_type)
           page_links == get_page_links(pg.soup, TableId(pg.flight_type))
           n == pages_to_scrape(page_links, pg.max_pages)
       IN /\ pg' = [pg EXCEPT !.all_flights = @ \o page1_flights,
                              !.page_links = page_links,
                              !.pages_to_scrape = IF page_links = <<>> THEN @ ELSE n,
                              !.pages = Append(@, page1_flights)]
          /\ spc' = IF page_links = <<>> \/ SliceTo(page_links, n) = <<>>
                    THEN "p310" ELSE "p277"
    /\ hist' = [hist EXCEPT !.order = Append(@, IF pg.flight_type = "Arribos" THEN 1 ELSE 2)]
    /\ UNCHANGED cvars
    /\ UNCHANGED <<soup, viewstate, arrivals_plus6, departures_plus6, arrivals_minus1,
                   departures_minus1, result, nreq, lastreq, prevreq>>

\* lines 277-308, one turn of the loop over page_links[:pages_to_scrape] (idx: the
\* index of the turn): click_pagination posts the link with the frame's viewstate and
\* rebinds soup and viewstate of the frame; the page is parsed; a first record already
\* accumulated stops the loop, else the page's records are added.  A request that
\* raises is caught at line 306 and stops the loop as well.
Paginate ==
    /\ spc = "p277"
    /\ LET page_link == pg.page_links[pg.idx + 1]
           last == pg.idx + 1 >= Len(SliceTo(pg.page_links, pg.pages_to_scrape))
       IN /\ Issue(click_pagination(pg.viewstate, page_link, pg.flight_type))
          /\ \/ /\ pg' = [pg EXCEPT !.err = TRUE, !.followed = Append(@, page_link)]
                /\ hist' = [hist EXCEPT !.failed = @ + 1]
                /\ spc' = "p310"
             \/ /\ Hangs(click_pagination(pg.viewstate, page_link, pg.flight_type))
                /\ pg' = [pg EXCEPT !.followed = Append(@, page_link)]
                /\ hist' = hist
                /\ spc' = "hung"
             \/ \E d \in PageDocs(nreq + 1, IF pg.flight_type = "Arribos" THEN "A" ELSE "D") :
                  LET page_flights == parse_flights(d, pg.flight_type)
                      dup == page_flights # <<>> /\ is_duplicate(page_flights, pg.all_flights)
                  IN /\ pg' = [pg EXCEPT !.soup = d,
                                         !.viewstate = extract_viewstate_data(d),
                                         !.all_flights = IF dup THEN @ ELSE @ \o page_flights,
                                         !.idx = IF dup \/ last THEN @ ELSE @ + 1,
                                         !.pages = Append(@, page_flights),
                                         !.followed = Append(@, page_link),
                                         !.dup = dup]
                     /\ hist' = [Noted(d) EXCEPT
                                   !.dropped = @ + (IF dup THEN Len(page_flights) ELSE 0)]
                     /\ spc' = IF dup \/ last THEN "p310" ELSE "p277"
    /\ UNCHANGED cvars
    /\ UNCHANGED <<soup, viewstate, arrivals_plus6, departures_plus6, arrivals_minus1,
                   departures_minus1, result>>

\* lines 310-314 (or 270): return all_flights; to line 322 or 328 of
\* scrape_all_flights, which keeps the list, or to the caller of scrape_all_pages.
\* The frame is gone.
ReturnPages ==
    /\ spc = "p310"
    /\ pg' = NoFrame
    /\ IF hist.entry = "pages"
       THEN /\ result' = [kind |-> "pages", value |-> pg.all_flights]
            /\ spc' = "done"
            /\ UNCHANGED <<arrivals_plus6, departures_plus6>>
       ELSE IF pg.flight_type = "Arribos"
       THEN /\ arrivals_plus6' = pg.all_flights
            /\ spc' = "s72"
            /\ UNCHANGED <<departures_plus6, result>>
       ELSE /\ departures_plus6' = pg.all_flights
            /\ spc' = "a120"
            /\ UNCHANGED <<arrivals_plus6, result>>
    /\ UNCHANGED cvars
    /\ UNCHANGED <<soup, viewstate, arrivals_minus1, departures_minus1,
                   nreq, lastreq, prevreq, hist>>

\* ------------------------------------------------------------ the scraper: extract_viewstate_data

\* extract_viewstate_data(soup) is called on its own, with any document: each hidden
\* field present with a value, or missing or empty
StartExtract ==
    /\ spc = "idle"
    /\ \E t \in SUBSET VSFields : soup' = [NoDoc EXCEPT !.n = 0, !.tokens = t]
    /\ spc' = "x45"
    /\ hist' = [hist EXCEPT !.entry = "extract"]
    /\ UNCHANGED cvars
    /\ UNCHANGED <<viewstate, pg, arrivals_plus6, departures_plus6, arrivals_minus1,
                   departures_minus1, result, nreq, lastreq, prevreq>>

\* lines 45-54: the dict is built and returned
ExtractViewstate ==
    /\ spc = "x45"
    /\ result' = [kind |-> "viewstate", value |-> extract_viewstate_data(soup)]
    /\ spc' = "done"
    /\ UNCHANGED cvars
    /\ UNCHANGED <<soup, viewstate, pg, arrivals_plus6, departures_plus6, arrivals_minus1,
                   departures_minus1, nreq, lastreq, prevreq, hist>>

\* ------------------------------------------------------------ the scraper: the switches
\* Inside change_to_departures and change_time_window_and_search the name viewstate is
\* the callee's parameter, rebound after step 1; the caller's viewstate is not read
\* again before line 325, 336 or 342 assigns it, so the one variable holds both.

\* line 325 -> change_to_departures(), lines 72-87: step 1, the dropdown postback
ChangeToDepartures1 ==
    /\ spc = "s72"
    /\ Issue(change_to_departures_1(viewstate))
    /\ \/ /\ spc' = "raised"
          /\ result' = Raised
          /\ hist' = [hist EXCEPT !.failed = @ + 1]
          /\ viewstate' = viewstate
       \/ \E d \in TokenDocs(nreq + 1) :
            /\ viewstate' = extract_viewstate_data(d)
            /\ hist' = Noted(d)
            /\ spc' = "s90"
            /\ result' = result
    /\ UNCHANGED cvars
    /\ UNCHANGED <<soup, pg, arrivals_plus6, departures_plus6, arrivals_minus1,
                   departures_minus1>>

\* lines 90-108: step 2, the search postback; line 325 keeps its soup and viewstate
\* and line 328 calls scrape_all_pages with them, 'Partidas' and max_pages=3
ChangeToDepartures2 ==
    /\ spc = "s90"
    /\ Issue(change_to_departures_2(viewstate))
    /\ \/ /\ spc' = "raised"
          /\ result' = Raised
          /\ hist' = [hist EXCEPT !.failed = @ + 1]
          /\ UNCHANGED <<soup, viewstate, pg>>
       \/ /\ Hangs(change_to_departures_2(viewstate))
          /\ spc' = "hung"
          /\ UNCHANGED <<soup, viewstate, pg, result, hist>>
       \/ \E d \in GridDocs(nreq + 1, "D") :
            /\ soup' = d
            /\ viewstate' = extract_viewstate_data(d)
            /\ pg' = Frame(d, extract_viewstate_data(d), "Partidas", DefaultMaxPages)
            /\ hist' = Noted(d)
            /\ spc' = "p257"
            /\ result' = result
    /\ UNCHANGED cvars
    /\ UNCHANGED <<arrivals_plus6, departures_plus6, arrivals_minus1, departures_minus1>>

\* lines 336 and 342 -> change_time_window_and_search(viewstate, flight_type, hours),
\* lines 120-135: step 1, the dropdown postback
ChangeTimeWindow1(flight_type, hours) ==
    /\ spc = (IF flight_type = "A" THEN "a120" ELSE "d120")
    /\ Issue(change_time_window_1(viewstate, flight_type, hours))
    /\ \/ /\ spc' = "raised"
          /\ result' = Raised
          /\ hist' = [hist EXCEPT !.failed = @ + 1]
          /\ viewstate' = viewstate
       \/ /\ Hangs(change_time_window_1(viewstate, flight_type, hours))
          /\ spc' = "hung"
          /\ UNCHANGED <<viewstate, result, hist>>
       \/ \E d \in TokenDocs(nreq + 1) :
            /\ viewstate' = extract_viewstate_data(d)
            /\ hist' = Noted(d)
            /\ spc' = (IF flight_type = "A" THEN "a138" ELSE "d138")
            /\ result' = result
    /\ UNCHANGED cvars
    /\ UNCHANGED <<soup, pg, arrivals_plus6, departures_plus6, arrivals_minus1,
                   departures_minus1>>

\* lines 138-156: step 2, the search postback; lines 336-338 (342-344) keep its soup
\* and viewstate and parse the first page only
ChangeTimeWindow2_paged(flight_type, hours) ==
    /\ spc = (IF flight_type = "A" THEN "a138" ELSE "d138")
    /\ Issue(change_time_window_2(viewstate, flight_type, hours))
    /\ \/ /\ spc' = "raised"
          /\ result' = Raised
          /\ hist' = [hist EXCEPT !.failed = @ + 1]
          /\ UNCHANGED <<soup, viewstate, pg, arrivals_minus1, departures_minus1>>
       \/ /\ Hangs(change_time_window_2(viewstate, flight_type, hours))
          /\ spc' = "hung"
          /\ UNCHANGED <<soup, viewstate, pg, arrivals_minus1, departures_minus1, result, hist>>
       \/ \E d \in GridDocs(nreq + 1, flight_type) :
            /\ soup' = d
            /\ viewstate' = extract_viewstate_data(d)
            /\ pg' = Frame(d, extract_viewstate_data(d),
                           IF flight_type = "A" THEN "Arribos" ELSE "Partidas",
                           DefaultMaxPages)
            /\ hist' = Noted(d)
            /\ spc' = "p257"
            /\ UNCHANGED <<result, arrivals_minus1, departures_minus1>>
    /\ UNCHANGED cvars
    /\ UNCHANGED <<arrivals_plus6, departures_plus6>>
ChangeTimeWindow2(flight_type, hours) ==
    /\ spc = (IF flight_type = "A" THEN "a138" ELSE "d138")
    /\ Issue(change_time_window_2(viewstate, flight_type, hours))
    /\ \/ /\ spc' = "raised"
          /\ result' = Raised
          /\ hist' = [hist EXCEPT !.failed = @ + 1]
          /\ UNCHANGED <<soup, viewstate, arrivals_minus1, departures_minus1>>
       \/ /\ Hangs(change_time_window_2(viewstate, flight_type, hours))
          /\ spc' = "hung"
          /\ UNCHANGED <<soup, viewstate, arrivals_minus1, departures_minus1, result, hist>>
       \/ \E d \in GridDocs(nreq + 1, flight_type) :
            /\ soup' = d
            /\ viewstate' = extract_viewstate_data(d)
            /\ IF flight_type = "A"
               THEN /\ arrivals_minus1' = parse_flights(d, "Arribos")
                    /\ departures_minus1' = departures_minus1
               ELSE /\ departures_minus1' = parse_flights(d, "Partidas")
                    /\ arrivals_minus1' = arrivals_minus1
            /\ hist' = [Noted(d) EXCEPT !.order = Append(@, IF flight_type = "A" THEN 3 ELSE 4)]
            /\ spc' = (IF flight_type = "A" THEN "d120" ELSE "s348")
            /\ result' = result
    /\ UNCHANGED cvars
    /\ UNCHANGED <<pg, arrivals_plus6, departures_plus6>>

\* lines 348-364: the two lists are concatenated and returned
Combine_swapped ==
    /\ spc = "s348"
    /\ result' = [kind |-> "flights",
                  value |-> <<arrivals_minus1 \o arrivals_plus6,
                              departures_minus1 \o departures_plus6>>]
    /\ spc' = "done"
    /\ UNCHANGED cvars
    /\ UNCHANGED <<soup, viewstate, pg, arrivals_plus6, departures_plus6, arrivals_minus1,
                   departures_minus1, nreq, lastreq, prevreq, hist>>
Combine ==
    /\ spc = "s348"
    /\ result' = [kind |-> "flights",
                  value |-> <<arrivals_plus6 \o arrivals_minus1,
                              departures_plus6 \o departures_minus1>>]
    /\ spc' = "done"
    /\ UNCHANGED cvars
    /\ UNCHANGED <<soup, viewstate, pg, arrivals_plus6, departures_plus6, arrivals_minus1,
                   departures_minus1, nreq, lastreq, prevreq, hist>>

\* one run of the scraper, from any of its entry points, against any server
ScrapeNext ==
    \/ StartScrape \/ GetInitialPage
    \/ StartPages \/ Page1 \/ Paginate \/ ReturnPages
    \/ StartExtract \/ ExtractViewstate
    \/ ChangeToDepartures1 \/ ChangeToDepartures2
    \/ ChangeTimeWindow1("A", "-1") \/ ChangeTimeWindow2("A", "-1")
    \/ ChangeTimeWindow1("D", "-1") \/ ChangeTimeWindow2("D", "-1")
    \/ Combine

ScrapeSpec == Init /\ [][ScrapeNext]_vars

\* the fairness of a run: the thread that runs the scraper keeps running, and every
\* request that can come back, with a response or an exception, does; nothing makes
\* an entry point be called
ScrapeRun ==
    \/ GetInitialPage
    \/ Page1 \/ Paginate \/ ReturnPages
    \/ ExtractViewstate
    \/ ChangeToDepartures1 \/ ChangeToDepartures2
    \/ ChangeTimeWindow1("A", "-1") \/ ChangeTimeWindow2("A", "-1")
    \/ ChangeTimeWindow1("D", "-1") \/ ChangeTimeWindow2("D", "-1")
    \/ Combine

FairScrapeSpec == Init /\ [][ScrapeNext]_vars /\ WF_vars(ScrapeRun)

\* ------------------------------------------------------------ properties

\* the caller's last get_or_refresh has returned or raised
Returned(p) == ret[p].kind # "none"
AgeKeys == {"age", "age_seconds", "cache_age"}

\* C1: a call whose freshness check finds a published entry of age < ttl, and whose
\* entry no other caller replaces or clears before it returns, returns that entry
\* itself, starts no scrape and adds nothing to the scrape counter.
C1_FreshHit ==
    \A p \in Callers :
        (Returned(p) /\ call[p].fresh # 0 /\ ~call[p].moved)
        => /\ ret[p] = ReturnData(call[p].fresh)
           /\ call[p].scrapes = 0
           /\ call[p].serial = 0
           /\ call[p].bumped = 0

\* two hits on the one published snapshot
C1_Witness ==
    \E p \in Callers :
        /\ Returned(p) /\ call[p].fresh # 0 /\ ~call[p].moved
        /\ ret[p] = ReturnData(data) /\ data # None
        /\ call[p].scrapes = 0
        /\ hit_count = 2 /\ scrape_count = 1

\* C2: a call made with no other caller inside get_or_refresh or clear(), whose
\* freshness check finds no entry of age < ttl, makes no grace wait and runs exactly
\* one scrape; if the scrape succeeds the call adds exactly 1 to the scrape counter and
\* returns the snapshot it published, and if it fails the counter is not touched.
C2_SoloMiss ==
    \A p \in Callers :
        (Returned(p) /\ ~call[p].conc /\ call[p].fresh = 0)
        => /\ call[p].scrapes = 1
           /\ call[p].waits = 0
           /\ call[p].failed => call[p].bumped = 0
           /\ ~call[p].failed => /\ call[p].bumped = 1
                                 /\ ret[p] = ReturnData(call[p].serial)
                                 /\ call[p].serial \in published

\* an expired entry (age = ttl) replaced by a lone caller's scrape
C2_Witness ==
    \E p \in Callers :
        /\ Returned(p) /\ ~call[p].conc /\ call[p].fresh = 0
        /\ call[p].prior # 0 /\ ~call[p].failed
        /\ ret[p] = ReturnData(call[p].serial)
        /\ scrape_count = 2 /\ data = call[p].serial

C5_AfterClear ==
    \A p \in Callers :
        (Returned(p) /\ call[p].afterClear)
        => /\ ret[p].kind \in {"data", "stale"} => ret[p].id \notin call[p].pre
           /\ ~call[p].clrd
              => \/ /\ ret[p].kind \in {"data", "stale"}
                    /\ ret[p].id \in published \ call[p].pre
                 \/ ret[p] = Raise("scrape")
           /\ (call[p].clean /\ ~call[p].pubd /\ ~call[p].clrd)
              => /\ call[p].scrapes = 1
                 /\ \/ ret[p] = ReturnData(call[p].serial) /\ ~call[p].failed
                    \/ ret[p] = Raise("scrape") /\ call[p].failed

\* a snapshot was published, cleared, and the next call scraped afresh
C5_Witness ==
    \E p \in Callers :
        /\ Returned(p) /\ call[p].afterClear /\ call[p].clean
        /\ call[p].pre # {}
        /\ ~call[p].pubd /\ ~call[p].clrd
        /\ call[p].scrapes = 1
        /\ ret[p] = ReturnData(call[p].serial)

\* C6: a caller that found a refresh marked in progress sleeps without the lock,
\* at most once, and re-checks with the lock held; when that re-check finds a
\* published entry of age < ttl the caller starts no scrape and returns that entry.
C6_WaitThenHit ==
    \A p \in Callers :
        /\ pc[p] = "g186" => lock # p
        /\ pc[p] = "g188" => lock = p
        /\ call[p].waits <= 1
        /\ (Returned(p) /\ call[p].waits = 1 /\ call[p].fresh # 0)
           => /\ call[p].scrapes = 0
              /\ ret[p] = ReturnData(call[p].fresh)

\* a waiter served by the refresh it waited for
C6_Witness ==
    \E p \in Callers :
        /\ Returned(p) /\ call[p].waits = 1 /\ call[p].fresh # 0
        /\ call[p].scrapes = 0
        /\ ret[p] = ReturnData(call[p].fresh)
        /\ scrape_count = 1

\* C7 as stated: a call that returns a snapshot as a hit returns the data of the very
\* publish whose timestamp its freshness check used.
C7_AtomicPublish ==
    \A p \in Callers :
        (Returned(p) /\ ret[p].kind = "data" /\ ret[p].id # None /\ call[p].scrapes = 0)
        => ret[p].id = call[p].fresh

\* C8: a caller that is running a scrape or sleeping in the grace period does not
\* hold the lock: the lock is free or held by a caller that is doing neither.
C8_NoLockWhileScraping ==
    /\ \A p \in Callers : pc[p] \in {"g186", "g200"} => lock # p
    /\ lock # 0 => pc[lock] \notin {"g186", "g200", "idle"}

\* one caller scrapes, the other sleeps, and the lock is free
C8_Witness ==
    \E p, q \in Callers :
        /\ pc[p] = "g200" /\ pc[q] = "g186"
        /\ lock = 0
        /\ data # None

\* C9: every call makes at most one grace wait and at most one scrape and, scrapes
\* returning or raising, eventually returns or raises (no caller stays inside
\* get_or_refresh for ever); a held lock is always eventually free again.
C9_Termination ==
    /\ [](\A p \in Callers : call[p].waits <= 1 /\ call[p].scrapes <= 1)
    /\ \A p \in Callers : []<>(pc[p] \notin GetPcs)
    /\ []<>(lock = 0)

\* a call that waited, then scraped for itself, and returned
C9_Witness ==
    \E p \in Callers :
        /\ Returned(p) /\ pc[p] = "idle"
        /\ call[p].waits = 1 /\ call[p].scrapes = 1
        /\ lock = 0

\* C10: no step of the failure path (the scrape raising, lines 232-243) changes
\* self.data, self.timestamp, the scrape counter or the hit and miss counters; the
\* locked section of lines 235-236 records the error and clears the in-progress flag,
\* and the other steps leave those two alone as well.
C10_FailureFrame ==
    [][\A p \in Callers :
         (pc[p] \in {"g200", "g234", "g235", "g238", "g240"}
            /\ pc'[p] # pc[p] /\ call'[p].failed)
         => /\ data' = data
            /\ timestamp' = timestamp
            /\ scrape_count' = scrape_count
            /\ hit_count' = hit_count
            /\ miss_count' = miss_count
            /\ IF pc[p] = "g235"
               THEN last_error' = Err /\ scraping_in_progress' = FALSE
               ELSE last_error' = last_error
                    /\ scraping_in_progress' = scraping_in_progress]_vars

\* a scrape failed over a published entry: error recorded, entry still there
C10_Witness ==
    \E p \in Callers :
        /\ pc[p] = "g238" /\ call[p].failed
        /\ data # None /\ timestamp # NoTs /\ timestamp.of = data
        /\ last_error = Err /\ ~scraping_in_progress
        /\ scrape_count = 1

\* C11: the scrape counter never decreases; a step changes it only by adding exactly 1,
\* and only the step that completes a publish (lines 219-221) does, which leaves
\* last_error cleared; every such step adds 1.  clear(), hits, failed scrapes and
\* get_stats() leave the counter alone.
C11_CounterMonotone ==
    [][/\ scrape_count' >= scrape_count
       /\ scrape_count' # scrape_count
            => /\ scrape_count' = scrape_count + 1
               /\ last_error' = None
               /\ \E p \in Callers : pc[p] = "g219" /\ pc'[p] = "idle"
       /\ \A p \in Callers :
            (pc[p] = "g219" /\ pc'[p] # pc[p]) => scrape_count' = scrape_count + 1
       /\ \A p \in Callers :
            (pc[p] \in ClearPcs \cup StatsPcs \cup (GetPcs \ {"g219"}) /\ pc'[p] # pc[p])
            => scrape_count' = scrape_count]_vars

\* a second publish completed after a clear() and a failure-free run: the counter is 2
\* while the entry is the second scrape's
C11_Witness ==
    /\ scrape_count = 2
    /\ sinceClear = "dirty"
    /\ last_error = None
    /\ data # None

\* ------------------------------------------------------------ claims about the scraper

\* the value a form dict gives a field ("<absent>" if it does not have the field)
Field(d, name) ==
    IF \E kv \in d : kv[1] = name THEN (CHOOSE kv \in d : kv[1] = name)[2] ELSE "<absent>"
Has(d, name) == \E kv \in d : kv[1] = name

RECURSIVE Flatten(_)
Flatten(pages) == IF pages = <<>> THEN <<>> ELSE Head(pages) \o Flatten(Tail(pages))

Vuelos(flights) == {flights[i].Vuelo : i \in 1..Len(flights)}

\* page N of the pagination run begins with a record whose key was on pages 1..N-1
RepeatsAt(N) ==
    /\ pg.pages[N] # <<>>
    /\ pg.pages[N][1].Vuelo \in Vuelos(Flatten(SubSeq(pg.pages, 1, N - 1)))

\* C12 as stated: every postback of a scrape carries the three hidden fields of the
\* response to the request issued just before it (no request of the scrape having
\* failed).
C12_TokensOfPrecedingResponse ==
    (hist.entry = "flights" /\ lastreq.method = "POST" /\ hist.failed = 0)
    => lastreq.vs = {<<f, nreq - 1>> : f \in VSFields}

\* C13 as stated: for a document that lacks one of the three hidden fields, the
\* extraction does not return a dict (it fails); a dict returned holds all three.
C13_ExtractAllOrFail ==
    (hist.entry = "extract" /\ spc = "done")
    => /\ soup.tokens # VSFields => result.kind = "raise"
       /\ result.kind = "viewstate" => {kv[1] : kv \in result.value} = VSFields

\* C14: a request carries btnBuscar exactly when it is the second postback of a
\* direction switch or of a time-window switch; that postback has an empty event
\* target and follows the first postback of the same switch, whose event target is
\* the switched control and which has no btnBuscar; a pagination postback has the
\* link followed as event target and no btnBuscar; the GET has no form at all.
C14_SearchMarker ==
    LET search == Has(lastreq.data, "btnBuscar")
        target == Field(lastreq.data, "__EVENTTARGET")
    IN /\ search <=> lastreq.step \in {"dir2", "win2"}
       /\ search <=> (lastreq.method = "POST" /\ target = "")
       /\ search => /\ ~Has(prevreq.data, "btnBuscar")
                    /\ Field(prevreq.data, "__EVENTTARGET") \in {"ddlMovTp", "ddlVentanaH"}
       \* by the place the scrape stands at after the request
       /\ spc \in {"s90", "a138", "d138"}
            => /\ ~search
               /\ target = (IF spc = "s90" THEN "ddlMovTp" ELSE "ddlVentanaH")
       /\ (spc \in {"d120", "s348"}
           \/ (spc = "p257" /\ hist.entry = "flights" /\ pg.flight_type = "Partidas"))
            => search /\ target = ""
       /\ (spc \in {"p277", "p310"} /\ pg.followed # <<>>)
            => /\ ~search
               /\ target = pg.followed[Len(pg.followed)]
               /\ lastreq.step = "page"
       /\ lastreq.step = "get" => lastreq.data = {}

\* the search postback of the window switch of phase 3 went out after a pagination
\* of the departures
C14_Witness ==
    /\ spc = "d120"
    /\ Has(lastreq.data, "btnBuscar") /\ ~Has(prevreq.data, "btnBuscar")
    /\ Field(prevreq.data, "__EVENTTARGET") = "ddlVentanaH"
    /\ Len(departures_plus6) >= 2
    /\ nreq >= 7

\* C15 as stated: both postbacks of a switch carry the six filter fields, and every
\* filter but the switched one (ddlMovTp in a direction switch, ddlVentanaH in a
\* time-window switch) has the value it had in the preceding request.
C15_FiltersCarried ==
    lastreq.step \in {"dir1", "dir2", "win1", "win2"}
    => LET switched == IF lastreq.step \in {"dir1", "dir2"} THEN "ddlMovTp" ELSE "ddlVentanaH"
       IN /\ \A f \in FilterFields : Has(lastreq.data, f)
          /\ \A f \in FilterFields \ {switched} :
                Has(prevreq.data, f) => Field(lastreq.data, f) = Field(prevreq.data, f)

\* C16: the phases' records are taken in the order 1, 2, 3, 4 and a scrape that
\* returns took all four; once the first postback of a time-window switch has gone
\* out every later request is a postback of a time-window switch, two per phase, so
\* phases 3 and 4 paginate nothing; and what phase 3 (phase 4) keeps is the first
\* page of the document its search postback got, whatever links that page shows.
C16_PhaseOrder ==
    hist.entry = "flights"
    => /\ hist.order = SubSeq(<<1, 2, 3, 4>>, 1, Len(hist.order))
       /\ result.kind = "flights" => hist.order = <<1, 2, 3, 4>>
       /\ prevreq.phase <= lastreq.phase
       /\ prevreq.step \in {"win1", "win2"}
            => /\ lastreq.step \in {"win1", "win2"}
               /\ lastreq.step # prevreq.step
               /\ lastreq.step = "win2" <=> lastreq.phase = prevreq.phase
       /\ lastreq.step = "page" => lastreq.phase \in {1, 2}
       /\ spc = "d120"
            => /\ lastreq.step = "win2" /\ lastreq.phase = 3
               /\ Len(arrivals_minus1) = (IF soup.table = "dgGrillaA" THEN Len(soup.rows) ELSE 0)
               /\ \A i \in 1..Len(arrivals_minus1) : arrivals_minus1[i].Vuelo = soup.rows[i]
       /\ spc \in {"s348", "done"}
            => /\ lastreq.step = "win2" /\ lastreq.phase = 4
               /\ Len(departures_minus1) = (IF soup.table = "dgGrillaD" THEN Len(soup.rows) ELSE 0)
               /\ \A i \in 1..Len(departures_minus1) : departures_minus1[i].Vuelo = soup.rows[i]

\* a scrape returned whose phase 4 page showed pagination links, after a phase 1
\* that followed one
C16_Witness ==
    /\ hist.entry = "flights" /\ spc = "done" /\ result.kind = "flights"
    /\ Len(soup.links) >= 2 /\ soup.rows # <<>>
    /\ nreq = 8
    /\ hist.failed = 0

\* C17 as stated: a scrape in which some request failed returns no lists.
C17_AllOrNothing ==
    (hist.entry = "flights" /\ hist.failed > 0) => result.kind # "flights"

\* C18: in a pagination run, a page N >= 2 that begins with a record whose key was on
\* pages 1..N-1 is the last page fetched, none of its records is kept (all_flights is
\* pages 1..N-1), the loop is over, and the run then returns all_flights as it is, with
\* no exception.
C18_DuplicateStops ==
    [][(spc \in {"p277", "p310"}
        /\ \E N \in 2..Len(pg.pages) : RepeatsAt(N))
       => /\ \A N \in 2..Len(pg.pages) :
                RepeatsAt(N)
                => /\ N = Len(pg.pages)
                   /\ Len(pg.followed) = N - 1
                   /\ pg.all_flights = Flatten(SubSeq(pg.pages, 1, N - 1))
          /\ spc = "p310"
          /\ spc' # spc
               => /\ result'.kind # "raise"
                  /\ spc' # "raised"
                  /\ nreq' = nreq
                  /\ pg.all_flights =
                       (IF hist.entry = "pages" THEN result'.value
                        ELSE IF pg.flight_type = "Arribos" THEN arrivals_plus6'
                        ELSE departures_plus6')]_vars

\* page 1 had two records, page 2 began with the second one, a further link was left
C18_Witness ==
    /\ spc = "p310"
    /\ Len(pg.pages) = 2 /\ Len(pg.pages[1]) = 2
    /\ pg.pages[2] # <<>> /\ pg.pages[2][1].Vuelo = pg.pages[1][2].Vuelo
    /\ pg.pages[1][1].Vuelo # pg.pages[1][2].Vuelo
    /\ pg.pages_to_scrape >= 2
    /\ pg.all_flights = pg.pages[1]

\* C19: when a pagination run with max_pages >= 1 is over and no page repeated and no
\* request raised, the postbacks it issued are exactly the first
\* min(L, max_pages - 1) of the L links page 1 showed, in the order shown; while it
\* runs they are a prefix of those.
C19_PagesBounded ==
    (spc \in {"p277", "p310"} /\ pg.max_pages >= 1 /\ ~pg.err
     /\ \A N \in 2..Len(pg.pages) : ~RepeatsAt(N))
    => LET L == Len(pg.page_links)
           n == IF L < pg.max_pages - 1 THEN L ELSE pg.max_pages - 1
       IN /\ Len(pg.followed) <= n
          /\ pg.followed = SubSeq(pg.page_links, 1, Len(pg.followed))
          /\ spc = "p310" => Len(pg.followed) = n
          /\ spc = "p277" => Len(pg.followed) < n
          /\ Len(pg.pages) = Len(pg.followed) + 1

\* three links shown, max_pages 3: two followed, the third left
C19_Witness ==
    /\ spc = "p310"
    /\ Len(pg.page_links) = 3 /\ pg.max_pages = 3
    /\ pg.followed = SubSeq(pg.page_links, 1, 2)
    /\ ~pg.err /\ ~pg.dup
    /\ Len(pg.all_flights) = 2 /\ Len(pg.pages[2]) = 1

\* C20: the tuple a scrape returns is (phase 1's records followed by phase 3's,
\* phase 2's followed by phase 4's), every record of phases 1 and 3 stamped
\* 'Arribos' and every record of phases 2 and 4 stamped 'Partidas'; phase 4's records
\* are the rows of its document, in order, repeated designators included.
C20_Concatenation ==
    (hist.entry = "flights" /\ result.kind = "flights")
    => LET arr == result.value[1]
           dep == result.value[2]
       IN /\ Len(arr) = Len(arrivals_plus6) + Len(arrivals_minus1)
          /\ Len(dep) = Len(departures_plus6) + Len(departures_minus1)
          /\ \A i \in 1..Len(arrivals_plus6) : arr[i] = arrivals_plus6[i]
          /\ \A i \in 1..Len(arrivals_minus1) :
                arr[Len(arrivals_plus6) + i] = arrivals_minus1[i]
          /\ \A i \in 1..Len(departures_plus6) : dep[i] = departures_plus6[i]
          /\ \A i \in 1..Len(departures_minus1) :
                dep[Len(departures_plus6) + i] = departures_minus1[i]
          /\ \A i \in 1..Len(arr) : arr[i].Tipo = "Arribos"
          /\ \A i \in 1..Len(dep) : dep[i].Tipo = "Partidas"
          /\ Len(arr) + Len(dep) = hist.served - hist.dropped
          /\ soup.table = "dgGrillaD"
               => \A i \in 1..Len(soup.rows) :
                    dep[Len(departures_plus6) + i] = [Tipo |-> "Partidas", Vuelo |-> soup.rows[i]]

\* the same designator in both windows of the arrivals and a departure in each window
C20_Witness ==
    /\ hist.entry = "flights" /\ result.kind = "flights"
    /\ Len(arrivals_plus6) = 1 /\ Len(arrivals_minus1) = 1
    /\ arrivals_plus6[1].Vuelo = arrivals_minus1[1].Vuelo
    /\ Len(result.value[1]) = 2
    /\ Len(result.value[2]) = 1

\* a document with no grid, or with a grid that has no data row
EmptyGrid(doc) == doc.table = "none" \/ doc.rows = <<>>

\* C21: parsing a document that has no grid for the direction asked, or a grid
\* with no data row, gives no record and no exception, and the run goes on: page 1
\* of a pagination run leaves all_flights empty and the run continues (it returns at
\* once when there is no grid, hence no link); a later page adds nothing and does
\* not stop the loop; a window phase keeps the empty list and the scrape moves to its
\* next step.  An exception leaves the scrape only when a request raised.
C21_AbsentGrid ==
    [][/\ result'.kind = "raise" => hist'.failed > 0
       /\ (spc = "p257" /\ spc' # spc /\ EmptyGrid(pg.soup))
            => /\ pg'.all_flights = <<>>
               /\ spc' \in {"p277", "p310"}
               /\ pg.soup.table = "none" => spc' = "p310"
       /\ (spc = "p277" /\ nreq' # nreq /\ ~pg'.err /\ spc' # "hung"
            /\ EmptyGrid(pg'.soup))
            => /\ pg'.all_flights = pg.all_flights
               /\ ~pg'.dup
               /\ spc' \in {"p277", "p310"}
               /\ spc' = "p310" <=> Len(pg'.followed) = Len(SliceTo(pg.page_links,
                                                                    pg.pages_to_scrape))
       /\ (spc = "a138" /\ spc' \notin {spc, "raised", "hung"} /\ EmptyGrid(soup'))
            => arrivals_minus1' = <<>> /\ spc' = "d120"
       /\ (spc = "d138" /\ spc' \notin {spc, "raised", "hung"} /\ EmptyGrid(soup'))
            => departures_minus1' = <<>> /\ spc' = "s348"]_vars

\* a scrape returned its lists although phases 3 and 4 found no grid
C21_Witness ==
    /\ hist.entry = "flights" /\ result.kind = "flights"
    /\ soup.table = "none"
    /\ arrivals_minus1 = <<>> /\ departures_minus1 = <<>>
    /\ arrivals_plus6 # <<>> /\ departures_plus6 # <<>>
    /\ hist.failed = 0

\* C22 as stated: a scrape that has started always ends, with its lists or with an
\* exception, whatever the server does.
C22_ScrapeTerminates ==
    (spc = "s319") ~> (spc \in {"done", "raised"})

\* C23 as stated: scraping_in_progress is true whenever at least one caller is
\* between the start of its scrape (line 200) and the block that ends it (lines
\* 216-219 or 234-235), overlapping scrapes included.
C23_FlagWhileScraping ==
    (\E p \in Callers : pc[p] = "g200") => scraping_in_progress

\* C24 as stated: whatever clear() calls run beside it, a get_or_refresh call that
\* returns normally returns a snapshot that some scrape published, never None, and
\* a call that raises raises the exception of its own failed scrape, never an error
\* of the cache's code reading an entry cleared between its check and its read.
C24_ClearSafe ==
    \A p \in Callers :
        Returned(p)
        => /\ ret[p].kind \in {"data", "stale"}
                => ret[p].id # None /\ ret[p].id \in published
           /\ ret[p].kind = "raise"
                => ret[p].keys = {"scrape"} /\ call[p].failed

\* C25 as stated: for every integer max_pages, zero and the negatives included, a
\* pagination run issues at most max(0, max_pages - 1) next-page postbacks.
C25_PostbacksAtMost ==
    spc \in {"p277", "p310"} => Len(pg.followed) <= Max(0, pg.max_pages - 1)

\* C26: a failed refresh is not cached. A get_or_refresh call that follows a failed
\* scrape answered with stale data, with no publish since and no other caller beside
\* it, finds the entry still expired (or absent), takes neither the hit path nor the
\* wait, adds nothing to hit_count, adds one to miss_count as it starts a scrape of
\* its own, and returns after exactly one scrape.
C26_FailureNotCached ==
    [][\A p \in Callers :
         (InGet(p) /\ call[p].afterStale /\ ~call'[p].conc)
         => /\ pc[p] = "g170" => FreshEntry(data, timestamp, now) = 0
            /\ hit_count' = hit_count
            /\ pc'[p] \notin {"g171", "g172", "g173", "g174", "g186"}
            /\ miss_count' # miss_count
                 => /\ miss_count' = miss_count + 1
                    /\ pc[p] = "g179" /\ pc'[p] = "g200" /\ scraping_in_progress'
            /\ pc'[p] = "g200" /\ pc[p] # "g200" => miss_count' = miss_count + 1
            /\ pc'[p] = "idle" => call'[p].scrapes = 1]_vars

\* the call after the stale answer has scraped again and returned
C26_Witness ==
    \E p \in Callers :
        /\ Returned(p) /\ call[p].afterStale /\ ~call[p].conc
        /\ call[p].scrapes = 1 /\ miss_count >= 3 /\ hit_count = 0

\* C27: the duplicate check of a pagination run compares with the records that run
\* has accumulated and with nothing else: the run stopped on a duplicate exactly when
\* one of its pages 2.. began with a key of its own earlier pages, and what it holds
\* is its own pages in order (all of them, or all but the repeating one), whatever
\* keys an earlier phase collected.  The two -1 hour phases keep every row of their
\* response, unchecked.
C27_DedupOwnRun ==
    /\ spc \in {"p277", "p310"}
         => /\ pg.dup <=> \E N \in 2..Len(pg.pages) : RepeatsAt(N)
            /\ pg.all_flights = Flatten(IF pg.dup
                                        THEN SubSeq(pg.pages, 1, Len(pg.pages) - 1)
                                        ELSE pg.pages)
    /\ (spc = "d120" /\ soup.table = "dgGrillaA")
         => /\ Len(arrivals_minus1) = Len(soup.rows)
            /\ \A i \in 1..Len(soup.rows) : arrivals_minus1[i].Vuelo = soup.rows[i]
    /\ (spc = "s348" /\ soup.table = "dgGrillaD")
         => /\ Len(departures_minus1) = Len(soup.rows)
            /\ \A i \in 1..Len(soup.rows) : departures_minus1[i].Vuelo = soup.rows[i]

\* page 2 of the departures run begins with a designator the arrivals run collected
\* and the departures run had not: the page is kept
C27_Witness ==
    /\ spc = "p310" /\ hist.entry = "flights" /\ pg.flight_type = "Partidas"
    /\ Len(pg.pages) = 2 /\ pg.pages[1] # <<>> /\ pg.pages[2] # <<>>
    /\ pg.pages[2][1].Vuelo \in Vuelos(arrivals_plus6)
    /\ pg.pages[2][1].Vuelo \notin Vuelos(pg.pages[1])
    /\ ~pg.dup /\ ~pg.err
    /\ pg.all_flights = pg.pages[1] \o pg.pages[2]
====
